---------------------------- MODULE Spec2Model ----------------------------
(***************************************************************************)
(* OVERWATCH OS (src/app.py): a Streamlit dashboard over three Google      *)
(* Sheets worksheets (Logs, Timetable, Config).  Every user interaction    *)
(* re-runs the script top to bottom: it reads the clock, loads and         *)
(* normalises the sheets, computes the daily KPIs, renders the tabs and    *)
(* handles at most one widget event (Add Subject, COMMIT LOG, ADD SLOT or  *)
(* a chat prompt).                                                         *)
(*                                                                         *)
(* Encoding.  A DataFrame is a sequence of rows, a row a function from     *)
(* its column names to values; the empty frame has no columns.  Dates are  *)
(* day numbers, NaT is 0.  A sheet cell that get_all_records() returns is  *)
(* either a number or a string (Num, Str).  velocity is kept in            *)
(* hundredths (round(x, 2) * 100); the efs sum is kept in 200ths so that   *)
(* focus/100 and rot*1.5 are exact.  The numeric domains below hold only   *)
(* values for which the double arithmetic of the program is exact.        *)
(***************************************************************************)
EXTENDS Integers, Sequences, FiniteSets, TLC

VARIABLES
    logs_cols,      \* header of worksheet_logs (set of column names)
    logs_rows,      \* rows of worksheet_logs, as get_all_records() returns them
    tt_cols,        \* header of worksheet_timetable
    tt_rows,        \* rows of worksheet_timetable
    config_rows,    \* rows of worksheet_config
    today,          \* current_now.date(), as read by the last script run
    weekday,        \* current_now.weekday()
    protocol,       \* protocol (line 132)
    df_logs,        \* df_logs of the last script run
    df_timetable,   \* df_timetable of the last script run
    rot,            \* rot (displayed KPI)
    efs,            \* efs (displayed KPI)
    vel,            \* vel (displayed KPI), in hundredths
    subject_list,   \* subject_list of the last script run
    today_view,     \* today_view (line 238) of the last script run
    messages,       \* st.session_state.messages
    offline,        \* number of "PRIME OFFLINE" errors shown by the last run
    crash           \* exception that ended the last script run ("none": it
                    \* ran to its end); in the stand-alone specifications,
                    \* the exception the applied function raised

vars == <<logs_cols, logs_rows, tt_cols, tt_rows, config_rows, today, weekday,
          protocol, df_logs, df_timetable, rot, efs, vel, subject_list,
          today_view, messages, offline, crash>>

store == <<logs_cols, logs_rows, tt_cols, tt_rows, config_rows>>

-----------------------------------------------------------------------------
(* Bounds *)

MaxKpiRows == 2

MaxSlots == 2

MaxRawRows == 2

MaxStoreRows == 2

MaxDay == 2

MaxMsgs == 2

-----------------------------------------------------------------------------
(* Values *)

NaT == 0

LogCols == {"Date", "Type", "Duration", "Output", "Rot", "Focus"}

Columns(df) == IF df = <<>> THEN {} ELSE DOMAIN df[1]

-----------------------------------------------------------------------------
(* calculate_kpi *)

RECURSIVE SumCol(_, _)
SumCol(df, c) ==
    IF df = <<>> THEN 0 ELSE df[1][c] + SumCol(Tail(df), c)

\* One row's (Duration * (Focus/100)) - (Rot * 1.5), in 200ths.
EfsTerm(r) == 2 * r["Duration"] * r["Focus"] - 300 * r["Rot"]

RECURSIVE SumEfs(_)
SumEfs(df) ==
    IF df = <<>> THEN 0 ELSE EfsTerm(df[1]) + SumEfs(Tail(df))

\* int(x) of Python for x = n/d, d > 0: truncation toward zero.
PyInt(n, d) == IF n >= 0 THEN n \div d ELSE -((-n) \div d)

\* round(n/d, 2) for n >= 0, d > 0, in hundredths (ties to even).
Round2(n, d) ==
    LET q == (100 * n) \div d
        r == (100 * n) % d
    IN  IF 2 * r > d THEN q + 1
        ELSE IF 2 * r < d THEN q
        ELSE IF q % 2 = 0 THEN q ELSE q + 1

Kpi(r, e, v) == [exc |-> "none", rot |-> r, efs |-> e, vel |-> v]

\* The call ends with exception e; nothing is returned.
KpiRaise(e) == [exc |-> e, rot |-> 0, efs |-> 0, vel |-> 0]

Velocity(df_today) ==
    LET minutes == SumCol(df_today, "Duration")
    IN  IF minutes > 0
        THEN Round2(60 * SumCol(df_today, "Output"), minutes)
        ELSE 0

Efs(df_today) == PyInt(SumEfs(df_today), 200)

IsToday(r, day) == r["Date"] = day /\ r["Type"] = "Metric"

\* Lines 112-122: what follows the computation of today.
kpi_today(df, day) ==
    IF ~({"Date", "Type"} \subseteq Columns(df)) THEN KpiRaise("KeyError")
    ELSE LET df_today == SelectSeq(df, LAMBDA r : IsToday(r, day))
         IN  IF df_today = <<>> THEN Kpi(0, 0, 0)
             ELSE IF ~({"Rot", "Duration", "Focus", "Output"} \subseteq Columns(df))
                  THEN KpiRaise("KeyError")
             ELSE Kpi(SumCol(df_today, "Rot"), Efs(df_today), Velocity(df_today))

\* get_current_time().normalize() (line 111).  get_current_time() returns
\* datetime.now(IST), a datetime.datetime; normalize() is a method of
\* pandas.Timestamp that datetime.datetime does not have, so the attribute
\* lookup raises whatever the clock reads.
normalize(now) == [exc |-> "AttributeError", date |-> now]

\* calculate_kpi with today taken from the clock as a date and every entry of
\* that date counted, whatever its kind.
calculate_kpi_CountsAnomalies(df, day) ==
    LET df_today == SelectSeq(df, LAMBDA r : r["Date"] = day)
    IN  IF df_today = <<>> THEN Kpi(0, 0, 0)
        ELSE Kpi(SumCol(df_today, "Rot"), Efs(df_today), Velocity(df_today))

\* Lines 109-122.  day is the date the clock reads.
calculate_kpi(df, day) ==
    IF df = <<>> THEN Kpi(0, 0, 0)
    ELSE LET today_ == normalize(day)
         IN  IF today_.exc # "none" THEN KpiRaise(today_.exc)
             ELSE kpi_today(df, today_.date)

-----------------------------------------------------------------------------
(* Text: a string whose characters matter is a sequence of characters. *)

UpperCase == <<"A", "B", "C", "D", "E", "F", "G", "H", "I", "J", "K", "L", "M", "N", "O", "P", "Q", "R", "S", "T", "U", "V", "W", "X", "Y", "Z">>

LowerCase == <<"a", "b", "c", "d", "e", "f", "g", "h", "i", "j", "k", "l", "m", "n", "o", "p", "q", "r", "s", "t", "u", "v", "w", "x", "y", "z">>

\* str.lower() of one character.
Lower(c) ==
    IF \E i \in DOMAIN UpperCase : UpperCase[i] = c
    THEN LowerCase[CHOOSE i \in DOMAIN UpperCase : UpperCase[i] = c]
    ELSE c

LowerText(t) == [i \in DOMAIN t |-> Lower(t[i])]

\* str.split()[0]: the characters before the first blank (labels carry no
\* leading blank).
RECURSIVE FirstToken(_)
FirstToken(t) ==
    IF t = <<>> \/ t[1] = " " THEN <<>>
    ELSE <<t[1]>> \o FirstToken(Tail(t))

StartsWith(t, pat) ==
    /\ Len(pat) <= Len(t)
    /\ SubSeq(t, 1, Len(pat)) = pat

\* A left-to-right search for pat in t.
RECURSIVE Search(_, _)
Search(t, pat) ==
    IF StartsWith(t, pat) THEN TRUE
    ELSE IF t = <<>> THEN FALSE
    ELSE Search(Tail(t), pat)

\* The same search with letter case respected (case=False left out).
str_contains_CaseSensitive(t, pat) == Search(t, pat)

\* Series.str.contains(pat, case=False, na=False) on one value; pat holds
\* no regular-expression metacharacter.
str_contains(t, pat) == Search(LowerText(t), LowerText(pat))

-----------------------------------------------------------------------------
(* get_day_protocol and the timetable tab *)

MWS_Protocol == <<"M", "W", "S", " ", "P", "r", "o", "t", "o", "c", "o", "l">>

TTS_Protocol == <<"T", "T", "S", " ", "P", "r", "o", "t", "o", "c", "o", "l">>

Sunday_Special == <<"S", "u", "n", "d", "a", "y", " ", "S", "p", "e", "c", "i", "a", "l">>

\* The selector with Saturday left out of the TTS days.
get_day_protocol_NoSaturday(day_num) ==
    IF day_num \in {0, 2, 4} THEN MWS_Protocol
    ELSE IF day_num \in {1, 3} THEN TTS_Protocol
    ELSE Sunday_Special

get_day_protocol(day_num) ==
    IF day_num \in {0, 2, 4} THEN MWS_Protocol
    ELSE IF day_num \in {1, 3, 5} THEN TTS_Protocol
    ELSE Sunday_Special

View(e, v) == [exc |-> e, today_view |-> v]

\* Lines 235-250: the filter of the timetable for today's protocol.
tab_schedule(df, label) ==
    IF df = <<>> THEN View("none", <<>>)
    ELSE IF "Day_Type" \notin Columns(df) THEN View("KeyError", <<>>)
    ELSE View("none",
              SelectSeq(df, LAMBDA slot :
                  str_contains(slot["Day_Type"], FirstToken(label))))


-----------------------------------------------------------------------------
(* Values that the stand-alone specifications below leave alone *)

IdleStore ==
    /\ logs_cols = LogCols
    /\ logs_rows = <<>>
    /\ tt_cols = {"Day_Type", "Time_Slot", "Task"}
    /\ tt_rows = <<>>
    /\ config_rows = <<>>

IdleSession ==
    /\ subject_list = {}
    /\ messages = <<>>
    /\ offline = 0
    /\ crash = "none"

-----------------------------------------------------------------------------
(* SpecKpi: calculate_kpi applied to every normalised frame of at most     *)
(* MaxKpiRows rows and every reference date.  rot, efs and vel are what it *)
(* returned (0 when it raised), crash the exception it raised.             *)

KpiDates == {1, 2}

KpiTypes == {"Metric", "Anomaly"}

\* <<Duration, Output, Rot, Focus>> of an entry.
KpiNumerics ==
    { <<0, 0, 0, 0>>,     <<10, 0, 20, 0>>,  <<0, 4, 1, 0>>,
      <<90, 4, 0, 50>>,   <<90, 4, 1, 50>>,  <<10, 4, 1, 50>>,
      <<90, 0, 20, 50>>,  <<10, 4, 0, 100>> }

Entry(d, t, n) ==
    [Date |-> d, Type |-> t, Duration |-> n[1], Output |-> n[2],
     Rot |-> n[3], Focus |-> n[4]]

KpiEntries == {Entry(d, t, n) : d \in KpiDates, t \in KpiTypes, n \in KpiNumerics}

KpiApply(df, day) ==
    LET k == calculate_kpi(df, day)
    IN  /\ rot' = k.rot
        /\ efs' = k.efs
        /\ vel' = k.vel
        /\ crash' = k.exc

KpiInit ==
    /\ IdleStore
    /\ IdleSession
    /\ today \in KpiDates
    /\ weekday = 0
    /\ protocol = get_day_protocol(weekday)
    /\ df_timetable = <<>>
    /\ today_view = <<>>
    /\ df_logs = <<>>
    /\ rot = 0
    /\ efs = 0
    /\ vel = 0

KpiAppend ==
    \E e \in KpiEntries :
        /\ Len(df_logs) < MaxKpiRows
        /\ df_logs' = Append(df_logs, e)
        /\ KpiApply(df_logs', today)
        /\ UNCHANGED <<store, today, weekday, protocol, df_timetable,
                       subject_list, today_view, messages, offline>>

\* The same frame with the numeric fields of one Anomaly entry replaced.
KpiEditAnomaly ==
    \E i \in DOMAIN df_logs, n \in KpiNumerics :
        /\ df_logs[i].Type = "Anomaly"
        /\ df_logs' = [df_logs EXCEPT ![i] = Entry(@.Date, @.Type, n)]
        /\ df_logs' # df_logs
        /\ KpiApply(df_logs', today)
        /\ UNCHANGED <<store, today, weekday, protocol, df_timetable,
                       subject_list, today_view, messages, offline>>

KpiNext == KpiAppend \/ KpiEditAnomaly

SpecKpi == KpiInit /\ [][KpiNext]_vars

-----------------------------------------------------------------------------
(* Claims about calculate_kpi *)

\* Indices of the entries of df_logs with kind Metric dated on the reference date.
TodayMetric == {i \in DOMAIN df_logs :
                   df_logs[i].Type = "Metric" /\ df_logs[i].Date = today}

RECURSIVE SumOver(_, _)
SumOver(I, c) ==
    IF I = {} THEN 0
    ELSE LET i == CHOOSE j \in I : TRUE
         IN  df_logs[i][c] + SumOver(I \ {i}, c)

RECURSIVE SumTerms(_)
SumTerms(I) ==
    IF I = {} THEN 0
    ELSE LET i == CHOOSE j \in I : TRUE
         IN  (2 * df_logs[i].Duration * df_logs[i].Focus - 300 * df_logs[i].Rot)
             + SumTerms(I \ {i})

\* C1: calculate_kpi returns, and its efs is the sum over the Metric entries
\* of the reference date of duration*focus/100 - rot*1.5, truncated toward
\* zero once, after summing, and never clamped: it is negative whenever that
\* sum is <= -1.
C1_EfsTruncatedSum ==
    LET S == SumTerms(TodayMetric)
    IN  /\ crash = "none"
        /\ S >= 0 => (200 * efs <= S /\ S < 200 * efs + 200)
        /\ S < 0 => (200 * efs >= S /\ S > 200 * efs - 200)
        /\ S <= -200 => efs < 0

C9_Velocity ==
    LET D == SumOver(TodayMetric, "Duration")
        O == SumOver(TodayMetric, "Output")
        err == 100 * 60 * O - vel * D
    IN  /\ crash = "none"
        /\ D = 0 => vel = 0
        /\ D > 0 => (2 * err <= D /\ 2 * err >= -D)


-----------------------------------------------------------------------------
(* SpecSched: get_day_protocol and the timetable filter applied to every   *)
(* weekday and every timetable of at most MaxSlots slots.                  *)

TimetableCols == {"Day_Type", "Time_Slot", "Task"}

\* The header line 53 creates, and the header of a sheet that names its
\* columns otherwise (no Day_Type column).
TimetableHeaders == {TimetableCols, {"Time_Slot", "Task"}}

DayTypeTexts ==
    { <<"M", "W", "S">>,
      <<"m", "w", "s", "-", "m", "o", "r", "n", "i", "n", "g">>,
      <<"T", "T", "S">>,
      <<"T", "t", "s", "/", "e", "v", "e">>,
      <<"S", "u", "n", "d", "a", "y">>,
      <<"S", "U", "N">>,
      <<"M", "W">>,
      <<>> }

Tasks == {"Physics", "Break"}

Slot(cols, d, t) ==
    LET full == [Day_Type |-> d, Time_Slot |-> "06:00 - 08:00", Task |-> t]
    IN  [c \in cols |-> full[c]]

\* pd.DataFrame(records): one row per record, in order.
DataFrame(records) == records

SchedApply(rows, day_num) ==
    LET label == get_day_protocol(day_num)
        view == tab_schedule(DataFrame(rows), label)
    IN  /\ protocol' = label
        /\ df_timetable' = DataFrame(rows)
        /\ today_view' = view.today_view
        /\ crash' = view.exc

SchedInit ==
    /\ logs_cols = LogCols
    /\ logs_rows = <<>>
    /\ config_rows = <<>>
    /\ IdleSession
    /\ tt_cols \in TimetableHeaders
    /\ tt_rows = <<>>
    /\ weekday \in 0..6
    /\ protocol = get_day_protocol(weekday)
    /\ today = 1
    /\ df_logs = <<>>
    /\ df_timetable = <<>>
    /\ today_view = <<>>
    /\ rot = 0
    /\ efs = 0
    /\ vel = 0

SchedAppend ==
    \E d \in DayTypeTexts, t \in Tasks :
        /\ Len(tt_rows) < MaxSlots
        /\ tt_rows' = Append(tt_rows, Slot(tt_cols, d, t))
        /\ SchedApply(tt_rows', weekday)
        /\ UNCHANGED <<logs_cols, logs_rows, tt_cols, config_rows, today,
                       weekday, df_logs, rot, efs, vel, subject_list,
                       messages, offline>>

SchedNext == SchedAppend

SpecSched == SchedInit /\ [][SchedNext]_vars

-----------------------------------------------------------------------------
(* Claims about the protocol selector and the schedule matcher *)

\* C2: weekday indices 0, 2, 4 give "MWS Protocol", 1, 3, 5 give
\* "TTS Protocol", 6 gives "Sunday Special"; no index of 0..6 gives anything
\* else.
C2_ProtocolTable ==
    /\ weekday \in {0, 2, 4} => protocol = MWS_Protocol
    /\ weekday \in {1, 3, 5} => protocol = TTS_Protocol
    /\ weekday = 6 => protocol = Sunday_Special
    /\ protocol \in {MWS_Protocol, TTS_Protocol, Sunday_Special}

\* Saturday, with the selector applied after a slot was added.
C2_Witness ==
    /\ weekday = 5
    /\ protocol = TTS_Protocol
    /\ tt_rows # <<>>

\* The first whitespace-delimited token of the active label.
Token ==
    IF weekday \in {0, 2, 4} THEN <<"M", "W", "S">>
    ELSE IF weekday \in {1, 3, 5} THEN <<"T", "T", "S">>
    ELSE <<"S", "u", "n", "d", "a", "y">>

\* text holds tok at some offset, letter case ignored.
HoldsIgnoringCase(text, tok) ==
    \E k \in 0..(Len(text) - Len(tok)) :
        \A j \in 1..Len(tok) : Lower(text[k + j]) = Lower(tok[j])

Qualifying ==
    {i \in DOMAIN df_timetable :
        HoldsIgnoringCase(df_timetable[i]["Day_Type"], Token)}

\* The k-th qualifying slot, counted in timetable order.
NthQualifying(k) ==
    CHOOSE i \in Qualifying : Cardinality({j \in Qualifying : j <= i}) = k

\* C6: the matcher returns exactly the slots whose day-type text holds,
\* case-insensitively, the first token of the active label, in their
\* original order, and an empty sequence (no exception) when none does.
C6_MatcherFilters ==
    (df_timetable = <<>> \/ "Day_Type" \in Columns(df_timetable)) =>
        /\ crash = "none"
        /\ Len(today_view) = Cardinality(Qualifying)
        /\ \A k \in 1..Len(today_view) :
              today_view[k] = df_timetable[NthQualifying(k)]

\* "mws-morning" is matched under "MWS Protocol" and a slot before it is left
\* out.
C6_Witness ==
    /\ protocol = MWS_Protocol
    /\ Len(df_timetable) = 2
    /\ "Day_Type" \in Columns(df_timetable)
    /\ df_timetable[1]["Day_Type"] = <<"T", "T", "S">>
    /\ df_timetable[2]["Day_Type"] = <<"m", "w", "s", "-", "m", "o", "r", "n", "i", "n", "g">>
    /\ today_view = <<df_timetable[2]>>

\* C5: a non-empty timetable without a day-type column comes back whole and
\* unfiltered, and nothing is raised.
C5_NoDayTypeUnfiltered ==
    (df_timetable # <<>> /\ "Day_Type" \notin Columns(df_timetable)) =>
        /\ crash = "none"
        /\ today_view = df_timetable


-----------------------------------------------------------------------------
(* get_data: the records of the sheets and their normalisation *)

\* A cell as get_all_records() returns it: a number, or a string.
Num(n) == [k |-> "num", n |-> n, s |-> ""]

Str(t) == [k |-> "str", n |-> 0, s |-> t]

\* strftime("%Y-%m-%d") of the days the model knows, by day number.
DateText == <<"2024-01-01", "2024-01-02", "2024-01-03", "2024-01-04">>

strftime(day) == DateText[day]

\* pd.to_datetime(text, errors='coerce') of one value.
to_datetime(text) ==
    IF \E d \in DOMAIN DateText : DateText[d] = text
    THEN CHOOSE d \in DOMAIN DateText : DateText[d] = text
    ELSE NaT

\* pd.to_numeric(cell, errors='coerce') followed by fillna(0), of one value.
to_numeric(cell) == IF cell.k = "num" THEN cell.n ELSE 0

Loaded(e, dl, dt) == [exc |-> e, df_logs |-> dl, df_timetable |-> dt]

NormalizeRow(r) ==
    [c \in DOMAIN r |->
        IF c = "Date" THEN to_datetime(r[c])
        ELSE IF c \in {"Duration", "Output", "Rot", "Focus"} THEN to_numeric(r[c])
        ELSE r[c]]

get_data(data_logs, data_time) ==
    IF data_logs = <<>> THEN Loaded("none", <<>>, DataFrame(data_time))
    ELSE IF ~({"Date", "Duration", "Output", "Rot", "Focus"}
                 \subseteq Columns(DataFrame(data_logs)))
         THEN Loaded("KeyError", <<>>, <<>>)
    ELSE Loaded("none",
                [i \in DOMAIN data_logs |-> NormalizeRow(data_logs[i])],
                DataFrame(data_time))

-----------------------------------------------------------------------------
(* SpecData: get_data followed by calculate_kpi, as lines 163-164 run them, *)
(* applied to every Logs sheet of at most MaxRawRows rows over the headers *)
(* below.  crash is the exception the two calls raise, df_logs what        *)
(* get_data returned, rot, efs and vel what calculate_kpi returned (0 when *)
(* one of the calls raised).                                               *)

\* The header line 52 creates (its KPI columns), and headers of sheets that
\* lack one of the columns.
LogsHeaders ==
    {LogCols, LogCols \ {"Type"}, LogCols \ {"Rot"}, LogCols \ {"Date"}}

RawDates == {"2024-01-01", "2024-01-02", "", "tomorrow"}

RawTypes == {"Metric", "Anomaly", "", "Study"}

\* <<Duration, Output, Rot, Focus>> cells of a row.
RawNumerics ==
    { <<Num(90), Num(4), Num(1), Num(50)>>,
      <<Num(10), Num(0), Num(20), Num(0)>>,
      <<Str(""), Num(4), Str("n/a"), Str("")>> }

RawRow(cols, d, t, n) ==
    LET full == [Date |-> d, Type |-> t, Duration |-> n[1], Output |-> n[2],
                 Rot |-> n[3], Focus |-> n[4]]
    IN  [c \in cols |-> full[c]]

DataApply(rows, day) ==
    LET g == get_data(rows, <<>>)
        k == IF g.exc = "none" THEN calculate_kpi(g.df_logs, day)
             ELSE KpiRaise(g.exc)
    IN  /\ df_logs' = g.df_logs
        /\ rot' = k.rot
        /\ efs' = k.efs
        /\ vel' = k.vel
        /\ crash' = k.exc

DataInit ==
    /\ logs_cols \in LogsHeaders
    /\ logs_rows = <<>>
    /\ tt_cols = TimetableCols
    /\ tt_rows = <<>>
    /\ config_rows = <<>>
    /\ subject_list = {}
    /\ messages = <<>>
    /\ offline = 0
    /\ crash = "none"
    /\ today = 1
    /\ weekday = 0
    /\ protocol = get_day_protocol(weekday)
    /\ df_logs = <<>>
    /\ df_timetable = <<>>
    /\ today_view = <<>>
    /\ rot = 0
    /\ efs = 0
    /\ vel = 0

DataAppend ==
    \E d \in RawDates, t \in RawTypes, n \in RawNumerics :
        /\ Len(logs_rows) < MaxRawRows
        /\ logs_rows' = Append(logs_rows, RawRow(logs_cols, d, t, n))
        /\ DataApply(logs_rows', today)
        /\ UNCHANGED <<logs_cols, tt_cols, tt_rows, config_rows, today,
                       weekday, protocol, df_timetable, subject_list,
                       today_view, messages, offline>>

DataNext == DataAppend

SpecData == DataInit /\ [][DataNext]_vars

-----------------------------------------------------------------------------
(* Claims about the record normaliser *)

\* The entry the claims describe for stored row r: absent or non-numeric
\* numbers are 0, an absent or unparsable date is the invalid date.
Described(r) ==
    LET has(c) == c \in DOMAIN r
        num(c) == IF has(c) /\ r[c].k = "num" THEN r[c].n ELSE 0
    IN  [Date |-> IF has("Date") THEN to_datetime(r["Date"]) ELSE NaT,
         Type |-> IF has("Type") THEN r["Type"] ELSE "",
         Duration |-> num("Duration"), Output |-> num("Output"),
         Rot |-> num("Rot"), Focus |-> num("Focus")]

\* An absent or unknown kind read as Metric.
AsMetric(e) ==
    [e EXCEPT !.Type = IF @ \in {"Metric", "Anomaly"} THEN @ ELSE "Metric"]

\* The daily metrics of a list of entries: rot, efs and velocity over the
\* Metric entries of the reference date, 0 for an empty list.
DailyMetrics(entries, day) ==
    IF entries = <<>> THEN Kpi(0, 0, 0) ELSE kpi_today(entries, day)

DescribedKpi ==
    DailyMetrics([i \in DOMAIN logs_rows |-> Described(logs_rows[i])], today)

DescribedKpiAsMetric ==
    DailyMetrics([i \in DOMAIN logs_rows |-> AsMetric(Described(logs_rows[i]))],
                 today)

\* C4: a row whose Type is missing or unknown counts as a Metric entry: dated
\* on the reference date, its numbers enter rot, efs and velocity.
C4_UnknownKindIsMetric ==
    {"Date", "Duration", "Output", "Rot", "Focus"} \subseteq logs_cols =>
        <<rot, efs, vel>> = <<DescribedKpiAsMetric.rot, DescribedKpiAsMetric.efs,
                              DescribedKpiAsMetric.vel>>

\* C8: normalising never raises whatever columns the rows lack: every row is
\* returned, with 0 for a missing or non-numeric number and the invalid date for
\* a missing or unparsable date, and the rows are counted in the daily metrics.
C8_NormalizerTotal ==
    /\ Len(df_logs) = Len(logs_rows)
    /\ \A i \in DOMAIN df_logs :
          /\ \A c \in {"Duration", "Output", "Rot", "Focus"} \cap DOMAIN df_logs[i] :
                df_logs[i][c] = Described(logs_rows[i])[c]
          /\ "Date" \in DOMAIN df_logs[i] =>
                df_logs[i]["Date"] = Described(logs_rows[i]).Date
    /\ "Type" \in logs_cols =>
          <<rot, efs, vel>> = <<DescribedKpi.rot, DescribedKpi.efs, DescribedKpi.vel>>

-----------------------------------------------------------------------------
(* The script *)

Defaults ==
    {"Math", "Physics", "Chemistry", "Biology", "English", "GAT", "Python", "Chess"}

\* subject_list of the except branch (line 169).
FallbackSubjects == {"Math", "Physics", "Chemistry"}

\* The subject list as a set: sorted(list(set(...))) orders it for display.
get_subjects(data) ==
    IF data # <<>> /\ "Category" \in Columns(DataFrame(data))
    THEN Defaults \cup {data[i]["Item"] : i \in {j \in DOMAIN data :
                                                  data[j]["Category"] = "Subject"}}
    ELSE Defaults

Dash(dl, dt, r, e, v, sl) ==
    [df_logs |-> dl, df_timetable |-> dt, rot |-> r, efs |-> e, vel |-> v,
     subject_list |-> sl]

\* Lines 162-169.  reads_ok: the get_all_records() calls return (they raise
\* when the sheet service does not answer).
dashboard_logic(reads_ok, data_logs, data_time, data_config, day) ==
    LET g == get_data(data_logs, data_time)
        k == calculate_kpi(g.df_logs, day)
    IN  IF reads_ok /\ g.exc = "none" /\ k.exc = "none"
        THEN Dash(g.df_logs, g.df_timetable, k.rot, k.efs, k.vel,
                  get_subjects(data_config))
        ELSE Dash(<<>>, <<>>, 0, 0, 0, FallbackSubjects)

\* One run of the script down to the timetable tab, with no widget event.
script_run(reads_ok, data_logs, data_time, data_config, day, day_num) ==
    LET d == dashboard_logic(reads_ok, data_logs, data_time, data_config, day)
        label == get_day_protocol(day_num)
    IN  [dash |-> d, protocol |-> label, view |-> tab_schedule(d.df_timetable, label)]

\* Lines 292-340: the prompt is stored, then the assistant is consulted; its
\* answer is stored, its failure is reported by st.error.
chat_input(msgs, outcome) ==
    IF outcome = "response"
    THEN [messages |-> msgs \o <<"user", "assistant">>, offline |-> 0, exc |-> "none"]
    ELSE [messages |-> Append(msgs, "user"), offline |-> 1, exc |-> "none"]

\* Lines 263-265.
d_code(day_select) ==
    IF Search(day_select, <<"M", "W", "S">>) THEN <<"M", "W", "S">>
    ELSE IF Search(day_select, <<"T", "T", "S">>) THEN <<"T", "T", "S">>
    ELSE <<"S", "u", "n", "d", "a", "y">>


-----------------------------------------------------------------------------
(* Spec: the application.  The three sheets start as lines 52-54 create    *)
(* them; every action is one user interaction: the script run it triggers, *)
(* the widget's handler and, where the handler calls st.rerun(), the run   *)
(* that follows.  The sheets hold at most MaxStoreRows rows in all, the    *)
(* clock stays within MaxDay days, the chat within MaxMsgs messages.       *)

\* <<duration, output, rot_input, focus>> of the log form.
FormNumerics == { <<90, 4, 1, 50>>, <<10, 0, 20, 0>> }

\* new_sub_input.
SubjectInputs == {"", "History", "Biology", "Math"}

\* The options of the "Protocol Day" select box.
DaySelect ==
    { <<"M", "W", "S", " ", "(", "M", "o", "n", "/", "W", "e", "d", "/", "F", "r", "i", ")">>,
      <<"T", "T", "S", " ", "(", "T", "u", "e", "/", "T", "h", "u", "/", "S", "a", "t", ")">>,
      <<"S", "u", "n", "d", "a", "y">> }

\* The weekdays the application is started on.
StartWeekdays == {0, 5}

StoreRows == Len(logs_rows) + Len(tt_rows) + Len(config_rows)

\* What a run that reaches the end of the timetable filter leaves on the page.
Show(run) ==
    /\ df_logs' = run.dash.df_logs
    /\ df_timetable' = run.dash.df_timetable
    /\ rot' = run.dash.rot
    /\ efs' = run.dash.efs
    /\ vel' = run.dash.vel
    /\ subject_list' = run.dash.subject_list
    /\ protocol' = run.protocol
    /\ today_view' = run.view.today_view
    /\ crash' = run.view.exc

\* What a run leaves that an append_row() call ended: the exception leaves
\* the script; in the log tab the timetable filter was not reached yet.
ShowAborted(run, view) ==
    /\ df_logs' = run.dash.df_logs
    /\ df_timetable' = run.dash.df_timetable
    /\ rot' = run.dash.rot
    /\ efs' = run.dash.efs
    /\ vel' = run.dash.vel
    /\ subject_list' = run.dash.subject_list
    /\ protocol' = run.protocol
    /\ today_view' = view
    /\ crash' = "APIError"

\* get_current_time(): the clock has moved on by adv days since the last run.
Clock(adv) ==
    /\ today + adv <= MaxDay
    /\ today' = today + adv
    /\ weekday' = (weekday + adv) % 7

Init ==
    /\ logs_cols = LogCols
    /\ logs_rows = <<>>
    /\ tt_cols = TimetableCols
    /\ tt_rows = <<>>
    /\ config_rows = <<>>
    /\ today = 1
    /\ weekday \in StartWeekdays
    /\ messages = <<>>
    /\ offline = 0
    /\ \E reads_ok \in BOOLEAN :
          \E run \in {script_run(reads_ok, <<>>, <<>>, <<>>, today, weekday)} :
              /\ df_logs = run.dash.df_logs
              /\ df_timetable = run.dash.df_timetable
              /\ rot = run.dash.rot
              /\ efs = run.dash.efs
              /\ vel = run.dash.vel
              /\ subject_list = run.dash.subject_list
              /\ protocol = run.protocol
              /\ today_view = run.view.today_view
              /\ crash = run.view.exc

\* A run without a widget event (the page is opened or refreshed).
PageLoad ==
    \E adv \in {0, 1}, reads_ok \in BOOLEAN :
        /\ Clock(adv)
        /\ \E run \in {script_run(reads_ok, logs_rows, tt_rows, config_rows,
                                   today', weekday')} :
               Show(run)
        /\ offline' = 0
        /\ UNCHANGED <<store, messages>>

\* "Add Subject" (lines 189-195).  write_ok: append_row() returns.
AddSubject ==
    \E adv \in {0, 1}, reads_ok \in BOOLEAN, new_sub_input \in SubjectInputs :
        /\ Clock(adv)
        /\ \E run \in {script_run(reads_ok, logs_rows, tt_rows, config_rows,
                                   today', weekday')} :
               IF new_sub_input # "" /\ new_sub_input \notin run.dash.subject_list
               THEN \E write_ok \in BOOLEAN :
                       IF write_ok
                       THEN /\ StoreRows < MaxStoreRows
                            /\ config_rows' = Append(config_rows,
                                   [Category |-> "Subject", Item |-> new_sub_input])
                            /\ \E rerun_ok \in BOOLEAN :
                                  \E rerun \in {script_run(rerun_ok, logs_rows, tt_rows,
                                                config_rows', today', weekday')} :
                                      Show(rerun)
                       ELSE /\ config_rows' = config_rows
                            /\ ShowAborted(run, <<>>)
               ELSE /\ config_rows' = config_rows
                    /\ Show(run)
        /\ offline' = 0
        /\ UNCHANGED <<logs_cols, logs_rows, tt_cols, tt_rows, messages>>

\* "COMMIT LOG" (lines 214-230).
CommitLog ==
    \E adv \in {0, 1}, write_ok \in BOOLEAN, date_val \in 1..MaxDay,
       n \in FormNumerics :
        /\ Clock(adv)
        /\ IF write_ok
           THEN /\ StoreRows < MaxStoreRows
                /\ logs_rows' = Append(logs_rows,
                       RawRow(logs_cols, strftime(date_val), "Metric",
                              <<Num(n[1]), Num(n[2]), Num(n[3]), Num(n[4])>>))
                /\ \E rerun_ok \in BOOLEAN :
                      \E rerun \in {script_run(rerun_ok, logs_rows', tt_rows,
                                               config_rows, today', weekday')} :
                          Show(rerun)
           ELSE /\ logs_rows' = logs_rows
                /\ \E reads_ok \in BOOLEAN :
                      \E run \in {script_run(reads_ok, logs_rows, tt_rows,
                                             config_rows, today', weekday')} :
                          ShowAborted(run, <<>>)
        /\ offline' = 0
        /\ UNCHANGED <<logs_cols, tt_cols, tt_rows, config_rows, messages>>

\* "ADD SLOT" (lines 262-268); the form is reached only if the timetable
\* filter above it did not raise.
AddSlot ==
    \E adv \in {0, 1}, reads_ok \in BOOLEAN, day_select \in DaySelect :
        /\ Clock(adv)
        /\ \E run \in {script_run(reads_ok, logs_rows, tt_rows, config_rows,
                                   today', weekday')} :
               IF run.view.exc # "none"
               THEN /\ tt_rows' = tt_rows
                    /\ Show(run)
               ELSE \E write_ok \in BOOLEAN :
                       IF write_ok
                       THEN /\ StoreRows < MaxStoreRows
                            /\ tt_rows' = Append(tt_rows,
                                   Slot(tt_cols, d_code(day_select), "Physics"))
                            /\ \E rerun_ok \in BOOLEAN :
                                  \E rerun \in {script_run(rerun_ok, logs_rows, tt_rows',
                                                config_rows, today', weekday')} :
                                      Show(rerun)
                       ELSE /\ tt_rows' = tt_rows
                            /\ ShowAborted(run, run.view.today_view)
        /\ offline' = 0
        /\ UNCHANGED <<logs_cols, logs_rows, tt_cols, config_rows, messages>>

\* A chat prompt (lines 292-340); outcome is what the assistant call does.
\* The handler is reached only if the timetable filter did not raise.
Chat ==
    \E adv \in {0, 1}, reads_ok \in BOOLEAN, outcome \in {"response", "exception"} :
        /\ Clock(adv)
        /\ \E run \in {script_run(reads_ok, logs_rows, tt_rows, config_rows,
                                   today', weekday')},
              h \in {chat_input(messages, outcome)} :
               /\ df_logs' = run.dash.df_logs
               /\ df_timetable' = run.dash.df_timetable
               /\ rot' = run.dash.rot
               /\ efs' = run.dash.efs
               /\ vel' = run.dash.vel
               /\ subject_list' = run.dash.subject_list
               /\ protocol' = run.protocol
               /\ today_view' = run.view.today_view
               /\ IF run.view.exc = "none"
                  THEN /\ Len(h.messages) <= MaxMsgs
                       /\ messages' = h.messages
                       /\ offline' = h.offline
                       /\ crash' = h.exc
                  ELSE /\ messages' = messages
                       /\ offline' = 0
                       /\ crash' = run.view.exc
        /\ UNCHANGED store

Next == PageLoad \/ AddSubject \/ CommitLog \/ AddSlot \/ Chat

Spec == Init /\ [][Next]_vars


-----------------------------------------------------------------------------
(* Claims about the application *)

\* A prompt of the chat history that has no answer: the consultation that
\* followed it failed.
Unanswered ==
    \E i \in DOMAIN messages :
        /\ messages[i] = "user"
        /\ i = Len(messages) \/ messages[i + 1] = "user"

\* The daily metrics of the stored logs: rot, efs and velocity over the Metric
\* entries of today (the Logs sheet of the application keeps its six columns).
StoredKpi == DailyMetrics(get_data(logs_rows, tt_rows).df_logs, today)

Displayed == <<rot, efs, vel>>

\* C7: a failed consultation is reported by one offline message and no
\* exception, and once a consultation has failed the displayed rot, efs and
\* velocity are, in that interaction and every later one, the daily metrics
\* of the stored logs.
C7_FailureIsolated ==
    /\ offline \in {0, 1}
    /\ offline = 1 => crash = "none"
    /\ Unanswered => Displayed = <<StoredKpi.rot, StoredKpi.efs, StoredKpi.vel>>

\* A step in which a consultation fails: the prompt is stored, no answer is.
FailedConsultation == Len(messages') = Len(messages) + 1

\* The part of C7 that does not involve the displayed metrics: a failed
\* consultation is caught and reported by exactly one offline message and
\* leaves the sheets as they were; a change of the Logs sheet appends exactly
\* one row; after a failed consultation a commit that appends a row stays
\* possible while the sheets have room.
ConsultationCaught ==
    /\ [](offline \in {0, 1} /\ (offline = 1 => crash = "none"))
    /\ [][FailedConsultation =>
            /\ offline' = 1
            /\ crash' = "none"
            /\ store' = store]_vars
    /\ [][logs_rows' # logs_rows =>
            /\ Len(logs_rows') = Len(logs_rows) + 1
            /\ SubSeq(logs_rows', 1, Len(logs_rows)) = logs_rows]_vars
    /\ []((Unanswered /\ StoreRows < MaxStoreRows) =>
            ENABLED (CommitLog /\ Len(logs_rows') = Len(logs_rows) + 1))

\* The names of the persisted subject rows, in order.
PersistedSubjects ==
    SelectSeq(config_rows, LAMBDA r : r["Category"] = "Subject")

\* C10: the persisted subject rows never hold one of the eight default
\* subjects and never hold a name twice.
C10_NoDefaultNoDuplicate ==
    /\ \A i \in DOMAIN PersistedSubjects :
          PersistedSubjects[i]["Item"] \notin Defaults
    /\ \A i, j \in DOMAIN PersistedSubjects :
          PersistedSubjects[i]["Item"] = PersistedSubjects[j]["Item"] => i = j

=============================================================================
